---- MODULE Spec2Model ----
(***************************************************************************)
(* State-machine model of the CLIP search engine of src/src/search.py:     *)
(* Config, CLIPSearchEngine.__init__/_initialize, _validate_query, search, *)
(* num_images and cleanup.                                                 *)
(*                                                                         *)
(* Numbers.  Embeddings are integer vectors.  A tensor row is a record     *)
(* [v, nsq] standing for the real vector v / sqrt(nsq); a score is a       *)
(* record [n, d] standing for the real number n / sqrt(d).  Arithmetic on  *)
(* them is exact: floating-point rounding is not modelled.                 *)
(*                                                                         *)
(* Strings.  A query string is a sequence of runs [ws, n]: n whitespace    *)
(* characters (ws = TRUE) or n non-whitespace characters (ws = FALSE).     *)
(***************************************************************************)
EXTENDS Integers, Sequences, FiniteSets, TLC

\* ------------------------------------------------------------------ bounds

\* Largest number of rows / identifiers in a snapshot array.
MaxImages == 2

\* Dimension D of the stored embedding vectors.
VecDim == 2

\* ------------------------------------------------------- program constants

MIN_QUERY_LENGTH == 2

MAX_QUERY_LENGTH == 512

\* --------------------------------------------------------------- utilities

RECURSIVE SumSeq(_)
SumSeq(s) == IF s = <<>> THEN 0 ELSE Head(s) + SumSeq(Tail(s))

SeqsUpTo(S, n) == UNION { [1..k -> S] : k \in 0..n }

\* A vector of dimension VecDim whose first two coordinates are a and b.
Vec(a, b) == [i \in 1..VecDim |-> IF i = 1 THEN a ELSE IF i = 2 THEN b ELSE 0]

DotInt(x, y) == SumSeq([i \in 1..Len(x) |-> x[i] * y[i]])

NormSq(x) == DotInt(x, x)

\* ------------------------------------------------------ the snapshot files

\* The embedding rows explored: one of norm 2, one with negative coordinates.
RowValues == { Vec(0, 2), Vec(-1, -1) }

\* image_embeddings.npy: an N x D matrix.
EmbArrays == { [dim |-> VecDim, rows |-> r] : r \in SeqsUpTo(RowValues, MaxImages) }

\* image_embeddings.npy of shape (1, 0): one row, no components.
EmptyRowsArray == [dim |-> 0, rows |-> << <<>> >>]

FileName(i) == IF i % 2 = 1 THEN "image_a.jpg" ELSE "image_b.jpg"

\* image_filenames.npy: a length-N array of strings.
FilenameArrays == { [i \in 1..n |-> FileName(i)] : n \in 0..MaxImages }

Dirs == { "default", "tmp" }

\* What a directory holds: both array files, one of them, or nothing at all
\* (it does not exist).
DirStates == { "both", "noEmb", "noFn", "missing" }

DirExists(fsys, d) == fsys.state[d] # "missing"

HasEmbFile(fsys, d) == fsys.state[d] \in { "noFn", "both" }

HasFnFile(fsys, d) == fsys.state[d] \in { "noEmb", "both" }

\* The file systems explored: every content of the array files when both
\* directories hold both files, and one consistent and one inconsistent
\* content for every other combination of directory states.
FileSystems ==
    { [state |-> s, emb |-> e, fn |-> f] :
        s \in { [d \in Dirs |-> "both"] }, e \in EmbArrays, f \in FilenameArrays }
    \cup
    { [state |-> s, emb |-> [dim |-> VecDim, rows |-> <<Vec(0, 2)>>], fn |-> f] :
        s \in [Dirs -> DirStates],
        f \in { [i \in 1..1 |-> FileName(i)], <<>> } }
    \cup
    { [state |-> [d \in Dirs |-> "both"], emb |-> EmptyRowsArray,
       fn |-> [i \in 1..1 |-> FileName(i)]] }

\* ----------------------------------------------------------- configuration

\* Config.EMBEDDINGS_DIR is a class attribute (the environment's value at
\* import); an instance may shadow it by assignment.
ClassEmbeddingsDir == "default"

\* The default configuration: no environment variable set.
DefaultConfig ==
    [instDir |-> "unset", DEVICE |-> "cpu", DTYPE |-> "auto",
     NORMALIZE_EMBEDDINGS |-> TRUE, DEFAULT_TOP_K |-> 5]

\* The configurations explored: every precision mode with and without
\* normalization, and the default configuration with one more option
\* changed: the directory set on the instance, a CUDA device, a device
\* string torch does not know, a default top-k of 0.
Configs ==
    { [DefaultConfig EXCEPT !.DTYPE = t, !.NORMALIZE_EMBEDDINGS = n] :
        t \in { "auto", "float32", "float16" }, n \in BOOLEAN }
    \cup
    { [DefaultConfig EXCEPT !.instDir = "tmp"],
      [DefaultConfig EXCEPT !.DEVICE = "cuda"],
      [DefaultConfig EXCEPT !.DEVICE = "gpu0"],
      [DefaultConfig EXCEPT !.DEFAULT_TOP_K = 0] }

\* self.config.EMBEDDINGS_DIR: the instance attribute when set, else the
\* class attribute.
InstanceEmbeddingsDir(cfg) ==
    IF cfg.instDir = "unset" THEN ClassEmbeddingsDir ELSE cfg.instDir

\* Config.validate: a classmethod, it reads cls.EMBEDDINGS_DIR.
validate(fsys) ==
    /\ DirExists(fsys, ClassEmbeddingsDir)
    /\ HasEmbFile(fsys, ClassEmbeddingsDir)
    /\ HasFnFile(fsys, ClassEmbeddingsDir)

\* torch.device(name): "cpu" and "cuda" name device types, "gpu0" does not.
DeviceStringOk(name) == name \in { "cpu", "cuda" }

\* ------------------------------------------------------------------ tensors

\* F.normalize(x, p=2, dim=...): x / max(||x||, eps); the zero vector stays zero.
F_normalize(row) ==
    [v |-> row.v,
     nsq |-> IF NormSq(row.v) = 0 THEN row.nsq ELSE row.nsq * NormSq(row.v)]

RawRow(x) == [v |-> x, nsq |-> 1]

TensorDtype(cfg) ==
    IF cfg.DTYPE = "float16" \/ (cfg.DTYPE = "auto" /\ cfg.DEVICE = "cuda")
    THEN "float16" ELSE "float32"

\* The device tensor built at the end of _initialize.
DeviceTensor(cfg, emb) ==
    [dtype |-> TensorDtype(cfg), dim |-> emb.dim,
     rows |-> [i \in 1..Len(emb.rows) |->
                 IF cfg.NORMALIZE_EMBEDDINGS
                 THEN F_normalize(RawRow(emb.rows[i]))
                 ELSE RawRow(emb.rows[i])]]

ShapesConsistentUnchecked(emb, fn) == TRUE

ShapesConsistentWrongAxis(emb, fn) == emb.dim = Len(fn)

\* image_embeddings.shape[0] == len(image_filenames)
ShapesConsistent(emb, fn) == Len(emb.rows) = Len(fn)

\* -------------------------------------------------------------------- state

VARIABLES
    fs,        \* the file system: the two directories and the array files
    engine,    \* the CLIPSearchEngine object the caller holds, if any
    init,      \* the constructor call: its configuration, whether the model
               \* loads, the step that raised, the outcome
    last,      \* the last search or cleanup call: inputs, locals, outcome
    _engine,   \* the module-level instance get_engine keeps: 0 for None,
               \* else the number of the instance
    made,      \* how many instances get_engine has constructed
    getters,   \* per thread, its call of get_engine: position and locals
    searchers, \* per thread, its call of search: position and locals
    earlier,   \* a search call the caller has kept the outcome of
    api,       \* the FastAPI service: its phase, search_engine, last response
    settings,  \* os.environ, the Config class as imported, a Config object
    dl         \* a run of the downloader: arguments, counters, tasks, files

vars == <<fs, engine, init, last, _engine, made, getters, searchers,
          earlier, api, settings, dl>>

\* What lies outside search.py's engine and its callers' threads.
service_vars == <<earlier, api, settings, dl>>

\* What the calls of one caller on its own engine leave alone.
thread_vars == <<_engine, made, getters, searchers>>

\* What the threads sharing an engine leave alone.
engine_vars == <<fs, engine, init, last>>

\* The threads that call get_engine, or search, at the same time.
Threads == { "t1", "t2" }

\* How many times one thread calls get_engine.
MaxCalls == 2

NoConfig == DefaultConfig

NoTensor == [dtype |-> "float32", dim |-> 0, rows |-> <<>>]

\* No engine object: the constructor was not called, or it raised.
NoEngine ==
    [constructed |-> FALSE, config |-> NoConfig, model |-> "None",
     tokenizer |-> "None", image_embeddings |-> [dim |-> 0, rows |-> <<>>],
     image_filenames |-> [isNone |-> TRUE, data |-> <<>>],
     image_embeddings_t |-> NoTensor,
     device |-> "cpu"]

NoCall ==
    [op |-> "none", query |-> [type |-> "NoneType", runs |-> <<>>],
     top_k |-> [type |-> "NoneType", v |-> 0], k |-> 0,
     tokenized |-> FALSE, enc |-> [kind |-> "notcalled", v |-> <<>>],
     ranked |-> FALSE, idx_list |-> <<>>, results |-> <<>>,
     exc_type |-> "None", config |-> NoConfig, outcome |-> "none"]

\* A thread outside get_engine: built is the instance its constructor call
\* produced, ret the instance its last return handed out, outcome how its
\* last call ended, calls how many calls it has made, raised how many of
\* them ended with the constructor's exception.
IdleGetter ==
    [pc |-> "idle", built |-> 0, ret |-> 0, outcome |-> "none", calls |-> 0,
     raised |-> 0]

NoFeatures == [v |-> <<>>, nsq |-> 1]

\* A thread outside search: the call's inputs and record, and its locals.
IdleSearcher ==
    [pc |-> "idle", call |-> NoCall, top_k |-> NoCall.top_k,
     enc |-> [kind |-> "notcalled", v |-> <<>>], text_features |-> NoFeatures]

\* No constructor call yet, no call on an engine.
EngineFresh ==
    /\ engine = NoEngine
    /\ init = [config |-> NoConfig, modelLoads |-> FALSE, raisedAt |-> "none",
               outcome |-> "none", tokenizer_failed |-> FALSE,
               warned |-> FALSE]
    /\ last = NoCall

\* No request answered: status 0; call is the engine call a request led to.
NoResponse == [endpoint |-> "none", status |-> 0, call |-> NoCall]

\* The service not started: search_engine = None.
ApiDown == [phase |-> "down", search_engine |-> "None", response |-> NoResponse]

\* The environment variables Config reads that the model varies.
EnvVars == { "CLIP_MODEL", "CLIP_DEVICE", "SEARCH_TOP_K" }

Unset == [set |-> FALSE, v |-> ""]

\* The class attributes of Config the model follows, before the class
\* exists, and a Config object before it is created; environ on an object
\* is the environment at the moment it was created.
NoSettings ==
    [MODEL_NAME |-> "", PRETRAINED |-> "", DEVICE |-> "", DEFAULT_TOP_K |-> 0]

NoConfigObject ==
    [created |-> FALSE, environ |-> [x \in EnvVars |-> Unset],
     reports |-> NoSettings]

\* search.py not imported yet, no variable set.
SettingsUnset ==
    [imported |-> FALSE, environ |-> [x \in EnvVars |-> Unset],
     Config |-> NoSettings, config |-> NoConfigObject]

\* The most images a run of the downloader is asked for, and the most
\* attempts it is allowed.
MaxNum == 2

MaxAttempts == 3

\* The content hashes of the images the provider serves.
Hashes == { "h1", "h2" }

\* One call of download_one: where it stands, the hash of the content it
\* received, what it returns.
NewTask == [pc |-> "new", hash |-> "", result |-> "None"]

\* The downloader not run. files counts, per content hash, the files this
\* run has written; initial is what the output directory held at start.
DownloaderIdle ==
    [pc |-> "idle", num_images |-> 0, workers |-> 1, max_attempts |-> 0,
     downloaded |-> 0, attempts |-> 0, reported |-> 0,
     initial |-> {}, existing_hashes |-> {},
     files |-> [h \in Hashes |-> 0],
     tasks |-> [i \in 1..MaxAttempts |-> NewTask], futures |-> {}]

\* No call kept, the API not started, the downloader not run.
ServicesIdle ==
    /\ earlier = NoCall
    /\ api = ApiDown
    /\ settings = SettingsUnset
    /\ dl = DownloaderIdle

\* The module as imported: _engine = None, no thread inside a call.
ThreadsIdle ==
    /\ _engine = 0
    /\ made = 0
    /\ getters = [t \in Threads |-> IdleGetter]
    /\ searchers = [t \in Threads |-> IdleSearcher]

Init ==
    /\ fs \in FileSystems
    /\ EngineFresh
    /\ ThreadsIdle
    /\ ServicesIdle

\* ------------------------------------------------------------- construction

\* The step of __init__ / _initialize that raises, "done" when none does.
\* modelLoads is the behaviour of open_clip.create_model_and_transforms.
InitStep(fsys, cfg, modelLoads) ==
    IF ~DeviceStringOk(cfg.DEVICE) THEN "torch.device"
    ELSE IF ~validate(fsys) THEN "config.validate"
    ELSE IF ~HasEmbFile(fsys, InstanceEmbeddingsDir(cfg)) THEN "np.load"
    ELSE IF ~HasFnFile(fsys, InstanceEmbeddingsDir(cfg)) THEN "np.load"
    ELSE IF ~ShapesConsistent(fsys.emb, fsys.fn) THEN "shape check"
    ELSE IF ~modelLoads THEN "create_model_and_transforms"
    ELSE "done"

\* The exception the constructor raises when the given step does: torch.device
\* runs in __init__, outside the try block of _initialize; every later step
\* raises InitializationError itself or is wrapped into it.
InitOutcome(step) ==
    IF step = "done" THEN "ok"
    ELSE IF step = "torch.device" THEN "RuntimeError"
    ELSE "InitializationError"

\* Binding the tokenizer with no fallback: a failing get_tokenizer leaves
\* the constructor through its except clause.
BindTokenizerNoFallback(binds) ==
    [tokenizer |-> IF binds THEN "named" ELSE "None", warned |-> FALSE,
     raised |-> ~binds]

\* Binding the tokenizer: open_clip.get_tokenizer(name), and when it raises
\* a logged warning and open_clip.tokenize instead; binds says whether
\* get_tokenizer succeeds.
BindTokenizer(binds) ==
    [tokenizer |-> IF binds THEN "named" ELSE "default", warned |-> ~binds,
     raised |-> FALSE]

\* The constructor call's record: its configuration, the step that raised
\* and the exception, whether get_tokenizer was reached and failed, and
\* whether the fallback warning was logged.
ConstructorCall(fsys, cfg, modelLoads, tokenizerBinds) ==
    LET loaded == InitStep(fsys, cfg, modelLoads)
        bound == BindTokenizer(tokenizerBinds)
        step == IF loaded = "done" /\ bound.raised THEN "get_tokenizer"
                ELSE loaded
    IN [config |-> cfg, modelLoads |-> modelLoads, raisedAt |-> step,
        outcome |-> InitOutcome(step),
        tokenizer_failed |-> loaded = "done" /\ ~tokenizerBinds,
        warned |-> loaded = "done" /\ bound.warned]

\* The engine a successful constructor call leaves: the arrays as loaded,
\* the model, the tokenizer found or not, the device tensor.
BuiltEngine(fsys, cfg, tokenizerBinds) ==
    [constructed |-> TRUE, config |-> cfg, model |-> "loaded",
     tokenizer |-> BindTokenizer(tokenizerBinds).tokenizer,
     image_embeddings |-> fsys.emb,
     image_filenames |-> [isNone |-> FALSE, data |-> fsys.fn],
     image_embeddings_t |-> DeviceTensor(cfg, fsys.emb),
     device |-> cfg.DEVICE]

\* CLIPSearchEngine.__init__ followed by _initialize.
Construct(cfg, modelLoads, tokenizerBinds) ==
    /\ init.outcome = "none"
    /\ LET call == ConstructorCall(fs, cfg, modelLoads, tokenizerBinds)
       IN
       /\ init' = call
       /\ engine' =
            IF call.outcome = "ok" THEN BuiltEngine(fs, cfg, tokenizerBinds)
            ELSE NoEngine
    /\ last' = NoCall
    /\ UNCHANGED fs
    /\ UNCHANGED <<thread_vars, service_vars>>

\* ------------------------------------------------------------ search inputs

Str(runs) == [type |-> "str", runs |-> runs]

Ws(n) == [ws |-> TRUE, n |-> n]

Ch(n) == [ws |-> FALSE, n |-> n]

\* The queries explored: a value that is not a string, and strings on both
\* sides of both length limits, with surrounding and inner whitespace.
Queries ==
    { [type |-> "int", runs |-> <<>>],
      Str(<<Ws(MAX_QUERY_LENGTH + 88)>>),
      Str(<<Ws(1), Ch(MIN_QUERY_LENGTH - 1), Ws(1)>>),
      Str(<<Ws(1), Ch(MIN_QUERY_LENGTH), Ws(2)>>),
      Str(<<Ws(1), Ch(1), Ws(MAX_QUERY_LENGTH - 2), Ch(1), Ws(1)>>),
      Str(<<Ch(1), Ws(MAX_QUERY_LENGTH - 1), Ch(1)>>) }

PyInt(v) == [type |-> "int", v |-> v]

PyNone == [type |-> "NoneType", v |-> 0]

\* The top_k arguments explored: unset, integers around 0 and around the
\* corpus size, the float 2.0, and the bool True (which Python makes an
\* instance of int, with value 1).
TopKArgs ==
    { PyNone, PyInt(-1), PyInt(0), PyInt(1), PyInt(2), PyInt(MaxImages + 1),
      [type |-> "float", v |-> 2], [type |-> "bool", v |-> 1] }

\* What the tokenizer and model.encode_text do in one call: either raises,
\* or the encoder returns a vector, of the store's dimension or of another.
EncoderOutcomes ==
    { [kind |-> "tokenizer_raises", v |-> <<>>],
      [kind |-> "encoder_raises", v |-> <<>>],
      [kind |-> "vec", v |-> Vec(1, 0)],
      [kind |-> "vec", v |-> Vec(1, 1)],
      [kind |-> "vec", v |-> [i \in 1..(VecDim + 1) |-> 1]] }

\* ---------------------------------------------------------------- validation

RECURSIVE lstrip(_)
lstrip(runs) ==
    IF runs = <<>> THEN runs
    ELSE IF Head(runs).ws THEN lstrip(Tail(runs)) ELSE runs

RECURSIVE rstrip(_)
rstrip(runs) ==
    IF runs = <<>> THEN runs
    ELSE IF runs[Len(runs)].ws THEN rstrip(SubSeq(runs, 1, Len(runs) - 1))
    ELSE runs

\* str.strip()
strip(runs) == rstrip(lstrip(runs))

\* len(str)
len(runs) == SumSeq([i \in 1..Len(runs) |-> runs[i].n])

validate_query_unstripped(query) ==
    IF query.type # "str" THEN "InvalidQueryError"
    ELSE IF len(query.runs) < MIN_QUERY_LENGTH THEN "InvalidQueryError"
    ELSE IF len(query.runs) > MAX_QUERY_LENGTH THEN "InvalidQueryError"
    ELSE "ok"

\* CLIPSearchEngine._validate_query: the exception it raises, or "ok".
validate_query(query) ==
    IF query.type # "str" THEN "InvalidQueryError"
    ELSE IF len(strip(query.runs)) < MIN_QUERY_LENGTH THEN "InvalidQueryError"
    ELSE IF len(strip(query.runs)) > MAX_QUERY_LENGTH THEN "InvalidQueryError"
    ELSE "ok"

\* top_k after "if top_k is None: top_k = self.config.DEFAULT_TOP_K".
ResolveTopK(cfg, top_k) ==
    IF top_k.type = "NoneType" THEN PyInt(cfg.DEFAULT_TOP_K) ELSE top_k

\* isinstance(x, int): bool is a subclass of int.
IsInstanceInt(x) == x.type \in { "int", "bool" }

TopKArgOkNonNegative(top_k) == IsInstanceInt(top_k) /\ ~(top_k.v < 0)

\* The negation of "not isinstance(top_k, int) or top_k < 1".
TopKArgOk(top_k) == IsInstanceInt(top_k) /\ ~(top_k.v < 1)

\* num_images read off the other axis of the embeddings array.
num_images_of_width(e) == e.image_embeddings.dim

\* CLIPSearchEngine.num_images
num_images(e) ==
    IF e.image_filenames.isNone THEN 0 ELSE Len(e.image_filenames.data)

ClampTopKNone(top_k, n) == top_k

\* min(top_k, self.num_images): Python's min returns its first argument
\* unless the second is smaller.
ClampTopK(top_k, n) == IF n < top_k.v THEN PyInt(n) ELSE top_k

\* ------------------------------------------------------------------ ranking

\* a < b for scores a = a.n / sqrt(a.d), b = b.n / sqrt(b.d).
SignedSq(x) == IF x < 0 THEN -(x * x) ELSE x * x

ScoreLess(a, b) == SignedSq(a.n) * b.d < SignedSq(b.n) * a.d

ScoreEq(a, b) == SignedSq(a.n) * b.d = SignedSq(b.n) * a.d

\* The product of two tensor rows.
Dot(x, y) == [n |-> DotInt(x.v, y.v), d |-> x.nsq * y.nsq]

\* self.image_embeddings_t @ text_features[0]
Similarities(tensor, q) ==
    [i \in 1..Len(tensor.rows) |-> Dot(tensor.rows[i], q)]

\* The next index torch.topk selects among S: one of largest score, ties
\* broken by the order prio (which the library leaves unspecified).
Largest(sim, prio, S) ==
    CHOOSE i \in S : \A j \in S \ {i} :
        \/ ScoreLess(sim[j], sim[i])
        \/ ScoreEq(sim[j], sim[i]) /\ prio[i] < prio[j]

Smallest(sim, prio, S) ==
    CHOOSE i \in S : \A j \in S \ {i} :
        \/ ScoreLess(sim[i], sim[j])
        \/ ScoreEq(sim[j], sim[i]) /\ prio[i] < prio[j]

RECURSIVE SelectLargest(_, _, _, _)
SelectLargest(sim, k, prio, S) ==
    IF k = 0 THEN <<>>
    ELSE LET b == Largest(sim, prio, S)
         IN <<b>> \o SelectLargest(sim, k - 1, prio, S \ {b})

RECURSIVE SelectSmallest(_, _, _, _)
SelectSmallest(sim, k, prio, S) ==
    IF k = 0 THEN <<>>
    ELSE LET b == Smallest(sim, prio, S)
         IN <<b>> \o SelectSmallest(sim, k - 1, prio, S \ {b})

topk_smallest(sim, k, prio) == SelectSmallest(sim, k, prio, 1..Len(sim))

\* topk returning the first k indices of the tie order, whatever the scores.
topk_any(sim, k, prio) ==
    [j \in 1..k |-> CHOOSE i \in 1..Len(sim) :
                      Cardinality({ x \in 1..Len(sim) : prio[x] < prio[i] }) = j - 1]

topk_of_prefix(sim, k, prio) == SelectLargest(sim, k, prio, 1..k)

\* torch.topk(similarities, k=k, largest=True): the indices of the k
\* largest entries, in descending order of score (k <= len(sim)).
torch_topk(sim, k, prio) == SelectLargest(sim, k, prio, 1..Len(sim))

BuildResultsByPosition(filenames, idx, scores) ==
    [j \in 1..Len(idx) |-> [name |-> filenames[j], score |-> scores[j]]]

\* [(str(self.image_filenames[i]), float(s)) for i, s in zip(idx, scores)]
BuildResults(filenames, idx, scores) ==
    [j \in 1..Len(idx) |-> [name |-> filenames[idx[j]], score |-> scores[j]]]

\* ------------------------------------------------------------------- search

SearchCall(query, top_k) ==
    [NoCall EXCEPT !.op = "search", !.query = query, !.top_k = top_k]

\* Reading the attribute self.model: its value, or the AttributeError
\* raised once "del self.model" has removed the attribute (the class
\* defines no attribute of that name to fall back on).
ReadModel(e) == IF e.model = "deleted" THEN "AttributeError" ELSE e.model

\* The except clause of search, with every exception raised inside the try
\* block left to propagate unchanged.
ReraiseUnchanged(exc) == exc

\* The except clause of search: "except Exception as e" raises SearchError
\* in place of whatever the try block raised.
WrapException(exc) == "SearchError"

\* The try block of search, for a clamped top_k: the call's record.
\* enc is what tokenizer and encoder do, prio the tie order of torch.topk.
SearchBody(e, call, top_k, enc, prio) ==
    IF enc.kind = "tokenizer_raises"
    THEN [call EXCEPT !.outcome = WrapException("RuntimeError")]
    ELSE IF ReadModel(e) # "loaded"
    THEN [call EXCEPT !.tokenized = TRUE,
                      !.outcome = WrapException("AttributeError")]
    ELSE IF enc.kind = "encoder_raises"
    THEN [call EXCEPT !.tokenized = TRUE, !.enc = enc,
                      !.outcome = WrapException("RuntimeError")]
    ELSE IF Len(enc.v) # e.image_embeddings_t.dim
    THEN [call EXCEPT !.tokenized = TRUE, !.enc = enc,
                      !.outcome = WrapException("RuntimeError")]
    ELSE IF top_k.type # "int"
    THEN [call EXCEPT !.tokenized = TRUE, !.enc = enc,
                      !.outcome = WrapException("TypeError")]
    ELSE IF top_k.v > Len(e.image_embeddings_t.rows)
    THEN [call EXCEPT !.tokenized = TRUE, !.enc = enc,
                      !.outcome = WrapException("RuntimeError")]
    ELSE LET text_features == F_normalize(RawRow(enc.v))
             sim == Similarities(e.image_embeddings_t, text_features)
             idx == torch_topk(sim, top_k.v, prio)
             scores == [j \in 1..Len(idx) |-> sim[idx[j]]]
         IN [call EXCEPT !.tokenized = TRUE, !.enc = enc, !.ranked = TRUE,
                         !.idx_list = idx,
                         !.results = BuildResults(e.image_filenames.data,
                                                  idx, scores),
                         !.outcome = "ok"]

\* search with the top_k check placed after tokenization.
SearchResultLateTopKCheck(e, query, top_k, enc, prio) ==
    LET call == SearchCall(query, top_k)
        resolved == ResolveTopK(e.config, top_k)
    IN IF validate_query(query) # "ok"
       THEN [call EXCEPT !.outcome = "InvalidQueryError"]
       ELSE IF ~TopKArgOk(resolved)
       THEN [call EXCEPT !.tokenized = TRUE, !.outcome = "InvalidQueryError"]
       ELSE LET clamped == ClampTopK(resolved, num_images(e))
            IN SearchBody(e, [call EXCEPT !.k = clamped.v], clamped, enc, prio)

\* CLIPSearchEngine.search: the record of the call.
SearchResult(e, query, top_k, enc, prio) ==
    LET call == SearchCall(query, top_k)
        resolved == ResolveTopK(e.config, top_k)
    IN IF validate_query(query) # "ok"
       THEN [call EXCEPT !.outcome = "InvalidQueryError"]
       ELSE IF ~TopKArgOk(resolved)
       THEN [call EXCEPT !.outcome = "InvalidQueryError"]
       ELSE LET clamped == ClampTopK(resolved, num_images(e))
            IN SearchBody(e, [call EXCEPT !.k = clamped.v], clamped, enc, prio)

\* Whether search gets past its two validations.
InputsValid(e, query, top_k) ==
    /\ validate_query(query) = "ok"
    /\ TopKArgOk(ResolveTopK(e.config, top_k))

\* The tie orders torch.topk may follow on n scores.
TieOrders(n) == { p \in [1..n -> 1..n] : \A i, j \in 1..n : p[i] = p[j] => i = j }

\* search, on the path where validation raises: no encoder is involved.
SearchRejected(query, top_k) ==
    /\ engine.constructed
    /\ last.op = "none"
    /\ ~InputsValid(engine, query, top_k)
    /\ last' = SearchResult(engine, query, top_k,
                            [kind |-> "notcalled", v |-> <<>>], <<>>)
    /\ UNCHANGED <<fs, engine, init>>
    /\ UNCHANGED <<thread_vars, service_vars>>

\* search, on the path where validation passes, remembering the clamped
\* top_k as the engine's default.
SearchComputeKeepingTopK(query, top_k, enc, prio) ==
    /\ engine.constructed
    /\ last.op = "none"
    /\ InputsValid(engine, query, top_k)
    /\ last' = SearchResult(engine, query, top_k, enc, prio)
    /\ engine' = [engine EXCEPT !.config.DEFAULT_TOP_K = last'.k]
    /\ UNCHANGED <<fs, init>>
    /\ UNCHANGED <<thread_vars, service_vars>>

\* search, on the path where validation passes and the try block runs.
SearchCompute(query, top_k, enc, prio) ==
    /\ engine.constructed
    /\ last.op = "none"
    /\ InputsValid(engine, query, top_k)
    /\ last' = SearchResult(engine, query, top_k, enc, prio)
    /\ UNCHANGED <<fs, engine, init>>
    /\ UNCHANGED <<thread_vars, service_vars>>

\* CLIPSearchEngine.cleanup: "if self.model is not None: del self.model".
\* A second call raises at the read of self.model.
Cleanup ==
    /\ engine.constructed
    /\ last.op = "none"
    /\ IF ReadModel(engine) = "AttributeError"
       THEN /\ last' = [NoCall EXCEPT !.op = "cleanup",
                                      !.outcome = "AttributeError"]
            /\ UNCHANGED engine
       ELSE /\ last' = [NoCall EXCEPT !.op = "cleanup", !.outcome = "ok"]
            /\ engine' = [engine EXCEPT !.model =
                            IF engine.model = "None" THEN "None" ELSE "deleted"]
    /\ UNCHANGED <<fs, init>>
    /\ UNCHANGED <<thread_vars, service_vars>>

\* CLIPSearchEngine.__exit__, at the end of a with block whose body ended
\* normally (exc_type "None") or by an exception: it calls cleanup and
\* returns None, so the body's exception propagates.
ExitWith(exc_type) ==
    /\ engine.constructed
    /\ last.op = "none"
    /\ IF ReadModel(engine) = "AttributeError"
       THEN /\ last' = [NoCall EXCEPT !.op = "__exit__",
                                      !.exc_type = exc_type,
                                      !.outcome = "AttributeError"]
            /\ UNCHANGED engine
       ELSE /\ last' = [NoCall EXCEPT !.op = "__exit__",
                                      !.exc_type = exc_type,
                                      !.outcome = "ok"]
            /\ engine' = [engine EXCEPT !.model =
                            IF engine.model = "None" THEN "None" ELSE "deleted"]
    /\ UNCHANGED <<fs, init>>
    /\ UNCHANGED <<thread_vars, service_vars>>

\* The configurations validate() is called on: the default one, and one
\* whose EMBEDDINGS_DIR was assigned on the instance.
ValidateConfigs == { DefaultConfig, [DefaultConfig EXCEPT !.instDir = "tmp"] }

\* config.validate(), called by a caller on a Config object.
ValidateCall(cfg) ==
    /\ last.op = "none"
    /\ last' = [NoCall EXCEPT !.op = "validate", !.config = cfg,
                              !.outcome = IF validate(fs) THEN "True"
                                          ELSE "False"]
    /\ UNCHANGED <<fs, engine, init>>
    /\ UNCHANGED <<thread_vars, service_vars>>

\* The call returns or raises to the caller: its frame is gone.
Return ==
    /\ last.op # "none"
    /\ last' = NoCall
    /\ UNCHANGED <<fs, engine, init>>
    /\ UNCHANGED <<thread_vars, service_vars>>

Next ==
    \/ \E cfg \in Configs, modelLoads \in BOOLEAN, tokenizerBinds \in BOOLEAN :
          Construct(cfg, modelLoads, tokenizerBinds)
    \/ \E query \in Queries, top_k \in TopKArgs :
          SearchRejected(query, top_k)
    \/ \E query \in Queries, top_k \in TopKArgs, enc \in EncoderOutcomes,
          prio \in TieOrders(num_images(engine)) :
          SearchCompute(query, top_k, enc, prio)
    \/ Cleanup
    \/ \E exc_type \in { "None", "Exception" } : ExitWith(exc_type)
    \/ \E cfg \in ValidateConfigs : ValidateCall(cfg)
    \/ Return

Spec == Init /\ [][Next]_vars

\* --------------------------------------------------------------- get_engine

\* The worlds get_engine runs in: it constructs CLIPSearchEngine() with the
\* default configuration, so only the default directory matters.
GetEngineWorlds == { f \in FileSystems : f.state["tmp"] = "missing" }

\* get_engine without its test: every call constructs.
EngineIsNoneAlways(e) == TRUE

\* "if _engine is None"
EngineIsNone(e) == e = 0

GetEngineInit ==
    /\ fs \in GetEngineWorlds
    /\ EngineFresh
    /\ ThreadsIdle
    /\ ServicesIdle

\* A thread calls get_engine().
GetEngineCall(t) ==
    /\ getters[t].pc = "idle"
    /\ getters[t].calls < MaxCalls
    /\ getters' = [getters EXCEPT ![t].pc = "check", ![t].built = 0,
                                  ![t].outcome = "none"]
    /\ UNCHANGED <<_engine, made, searchers, engine_vars,
                   service_vars>>

\* A thread calls get_engine() while no other thread is inside it.
GetEngineCallAlone(t) ==
    /\ \A u \in Threads : getters[u].pc = "idle"
    /\ GetEngineCall(t)

\* The test "if _engine is None".
GetEngineCheck(t) ==
    /\ getters[t].pc = "check"
    /\ getters' = [getters EXCEPT ![t].pc =
                     IF EngineIsNone(_engine) THEN "construct" ELSE "return"]
    /\ UNCHANGED <<_engine, made, searchers, engine_vars,
                   service_vars>>

\* The call CLIPSearchEngine(): the constructor with the default
\* configuration; when it raises, the exception leaves get_engine.
GetEngineConstruct(t, modelLoads) ==
    /\ getters[t].pc = "construct"
    /\ LET out == InitOutcome(InitStep(fs, DefaultConfig, modelLoads))
       IN IF out = "ok"
          THEN /\ made' = made + 1
               /\ getters' = [getters EXCEPT ![t].pc = "assign",
                                             ![t].built = made + 1]
          ELSE /\ made' = made
               /\ getters' = [getters EXCEPT ![t].pc = "idle",
                                             ![t].outcome = out,
                                             ![t].calls = @ + 1,
                                             ![t].raised = @ + 1]
    /\ UNCHANGED <<_engine, searchers, engine_vars,
                   service_vars>>

\* The assignment "_engine = ..." of the constructed instance.
GetEngineAssign(t) ==
    /\ getters[t].pc = "assign"
    /\ _engine' = getters[t].built
    /\ getters' = [getters EXCEPT ![t].pc = "return"]
    /\ UNCHANGED <<made, searchers, engine_vars,
                   service_vars>>

\* "return _engine": the global is read again.
GetEngineReturn(t) ==
    /\ getters[t].pc = "return"
    /\ getters' = [getters EXCEPT ![t].pc = "idle", ![t].ret = _engine,
                                  ![t].outcome = "ok", ![t].calls = @ + 1]
    /\ UNCHANGED <<_engine, made, searchers, engine_vars,
                   service_vars>>

\* Threads calling get_engine with no coordination between them.
GetEngineNext ==
    \E t \in Threads :
        \/ GetEngineCall(t)
        \/ GetEngineCheck(t)
        \/ \E modelLoads \in BOOLEAN : GetEngineConstruct(t, modelLoads)
        \/ GetEngineAssign(t)
        \/ GetEngineReturn(t)

SpecGetEngine == GetEngineInit /\ [][GetEngineNext]_vars

\* Sequential use: a call begins only when no call is in progress.
GetEngineNextSequential ==
    \E t \in Threads :
        \/ GetEngineCallAlone(t)
        \/ GetEngineCheck(t)
        \/ \E modelLoads \in BOOLEAN : GetEngineConstruct(t, modelLoads)
        \/ GetEngineAssign(t)
        \/ GetEngineReturn(t)

SpecGetEngineSequential == GetEngineInit /\ [][GetEngineNextSequential]_vars

\* -------------------------------------------------------- concurrent search

\* The worlds in which the shared engine was built: the default
\* configuration constructs, over every consistent snapshot.
SearchWorlds ==
    { f \in FileSystems :
        f.state["tmp"] = "both" /\ InitStep(f, DefaultConfig, TRUE) = "done" }

\* The arguments the concurrent callers pass: a query too short and a valid
\* one; a top_k that is rejected, one within the corpus, one above it.
ConcurrentQueries ==
    { Str(<<Ws(1), Ch(MIN_QUERY_LENGTH - 1), Ws(1)>>),
      Str(<<Ws(1), Ch(MIN_QUERY_LENGTH), Ws(2)>>) }

ConcurrentTopKs == { PyInt(0), PyInt(1), PyInt(MaxImages + 1) }

\* One Ready engine, shared by the threads; none of them inside search.
ConcurrentSearchInit ==
    /\ fs \in SearchWorlds
    /\ engine = BuiltEngine(fs, DefaultConfig, TRUE)
    /\ init = ConstructorCall(fs, DefaultConfig, TRUE, TRUE)
    /\ last = NoCall
    /\ ThreadsIdle
    /\ ServicesIdle

\* text_features kept in one place for all calls: a call scores with the
\* vector another call has encoded meanwhile.
TextFeaturesShared(frames, t) ==
    LET others == { u \in Threads \ {t} : frames[u].pc \in { "score", "done" }
                                          /\ frames[u].call.enc.kind = "vec" }
    IN IF others = {} THEN frames[t].text_features
       ELSE frames[CHOOSE u \in others : TRUE].text_features

\* text_features, a local variable of the call.
TextFeatures(frames, t) == frames[t].text_features

\* A thread calls engine.search(query, top_k).
SearchBegin(t, query, top_k) ==
    /\ searchers[t].pc = "idle"
    /\ searchers' = [searchers EXCEPT ![t].pc = "validate",
                                      ![t].call = SearchCall(query, top_k)]
    /\ UNCHANGED <<_engine, made, getters, engine_vars,
                   service_vars>>

\* The default for top_k, _validate_query, the top_k check and the clamp.
SearchValidate(t) ==
    /\ searchers[t].pc = "validate"
    /\ LET f == searchers[t]
           resolved == ResolveTopK(engine.config, f.call.top_k)
           clamped == ClampTopK(resolved, num_images(engine))
       IN searchers' =
            IF validate_query(f.call.query) # "ok" \/ ~TopKArgOk(resolved)
            THEN [searchers EXCEPT ![t].pc = "done",
                                   ![t].call.outcome = "InvalidQueryError"]
            ELSE [searchers EXCEPT ![t].pc = "tokenize",
                                   ![t].call.k = clamped.v,
                                   ![t].top_k = clamped]
    /\ UNCHANGED <<_engine, made, getters, engine_vars,
                   service_vars>>

\* tokenize_fn([query]).to(self.device)
SearchTokenize(t, raises) ==
    /\ searchers[t].pc = "tokenize"
    /\ searchers' =
         IF raises
         THEN [searchers EXCEPT ![t].pc = "done",
                                ![t].enc = [kind |-> "tokenizer_raises",
                                            v |-> <<>>],
                                ![t].call.outcome =
                                    WrapException("RuntimeError")]
         ELSE [searchers EXCEPT ![t].pc = "encode",
                                ![t].call.tokenized = TRUE]
    /\ UNCHANGED <<_engine, made, getters, engine_vars,
                   service_vars>>

\* self.model.encode_text(tokens) and F.normalize under torch.no_grad().
SearchEncode(t, enc) ==
    /\ searchers[t].pc = "encode"
    /\ enc.kind \in { "encoder_raises", "vec" }
    /\ searchers' =
         IF ReadModel(engine) # "loaded"
         THEN [searchers EXCEPT ![t].pc = "done",
                                ![t].call.outcome =
                                    WrapException("AttributeError")]
         ELSE IF enc.kind = "encoder_raises"
         THEN [searchers EXCEPT ![t].pc = "done",
                                ![t].enc = enc,
                                ![t].call.enc = enc,
                                ![t].call.outcome =
                                    WrapException("RuntimeError")]
         ELSE [searchers EXCEPT ![t].pc = "score",
                                ![t].enc = enc,
                                ![t].call.enc = enc,
                                ![t].text_features =
                                    F_normalize(RawRow(enc.v))]
    /\ UNCHANGED <<_engine, made, getters, engine_vars,
                   service_vars>>

\* The matmul, torch.topk, and the list of results.
SearchScore(t, prio) ==
    /\ searchers[t].pc = "score"
    /\ LET f == searchers[t]
           q == TextFeatures(searchers, t)
           sim == Similarities(engine.image_embeddings_t, q)
           idx == torch_topk(sim, f.top_k.v, prio)
           scores == [j \in 1..Len(idx) |-> sim[idx[j]]]
       IN searchers' =
            IF Len(q.v) # engine.image_embeddings_t.dim
            THEN [searchers EXCEPT ![t].pc = "done",
                                   ![t].call.outcome =
                                       WrapException("RuntimeError")]
            ELSE IF f.top_k.type # "int"
            THEN [searchers EXCEPT ![t].pc = "done",
                                   ![t].call.outcome =
                                       WrapException("TypeError")]
            ELSE IF f.top_k.v > Len(engine.image_embeddings_t.rows)
            THEN [searchers EXCEPT ![t].pc = "done",
                                   ![t].call.outcome =
                                       WrapException("RuntimeError")]
            ELSE [searchers EXCEPT ![t].pc = "done",
                                   ![t].call.ranked = TRUE,
                                   ![t].call.idx_list = idx,
                                   ![t].call.results =
                                       BuildResults(engine.image_filenames.data,
                                                    idx, scores),
                                   ![t].call.outcome = "ok"]
    /\ UNCHANGED <<_engine, made, getters, engine_vars,
                   service_vars>>

\* The call returns or raises to its caller; its locals are gone.
SearchReturn(t) ==
    /\ searchers[t].pc = "done"
    /\ searchers' = [searchers EXCEPT ![t] = IdleSearcher]
    /\ UNCHANGED <<_engine, made, getters, engine_vars,
                   service_vars>>

\* Threads searching on the shared engine, their steps interleaved freely.
ConcurrentSearchNext ==
    \E t \in Threads :
        \/ \E query \in ConcurrentQueries, top_k \in ConcurrentTopKs :
             SearchBegin(t, query, top_k)
        \/ SearchValidate(t)
        \/ \E raises \in BOOLEAN : SearchTokenize(t, raises)
        \/ \E enc \in EncoderOutcomes : SearchEncode(t, enc)
        \/ \E prio \in TieOrders(num_images(engine)) : SearchScore(t, prio)
        \/ SearchReturn(t)

SpecConcurrentSearch == ConcurrentSearchInit /\ [][ConcurrentSearchNext]_vars

\* ---------------------------------------------------------- repeated search

\* The caller keeps the outcome of a search call, to compare a later one
\* with it.
Keep ==
    /\ last.op = "search"
    /\ earlier.op = "none"
    /\ earlier' = last
    /\ last' = NoCall
    /\ UNCHANGED <<fs, engine, init, thread_vars, api, settings, dl>>

\* One caller searching again and again on one Ready engine.
RepeatedSearchNext ==
    \/ \E query \in ConcurrentQueries, top_k \in ConcurrentTopKs :
          SearchRejected(query, top_k)
    \/ \E query \in ConcurrentQueries, top_k \in ConcurrentTopKs,
          enc \in EncoderOutcomes, prio \in TieOrders(num_images(engine)) :
          SearchCompute(query, top_k, enc, prio)
    \/ Keep
    \/ Return

SpecRepeatedSearch == ConcurrentSearchInit /\ [][RepeatedSearchNext]_vars

\* ------------------------------------------------------------ Config values

\* The value a test or a deployment gives each variable.
EnvValue(x) ==
    CASE x = "CLIP_MODEL" -> "ViT-L-14"
      [] x = "CLIP_DEVICE" -> "cuda"
      [] x = "SEARCH_TOP_K" -> "10"

\* The environments a process is started in.
Environments ==
    { [x \in EnvVars |-> IF x \in S THEN [set |-> TRUE, v |-> EnvValue(x)]
                                      ELSE Unset] : S \in SUBSET EnvVars }

\* os.getenv(name, default)
getenv(environ, name, default) ==
    IF environ[name].set THEN environ[name].v ELSE default

\* int(...) of the decimal strings that occur.
int(str) ==
    CASE str = "5" -> 5
      [] str = "10" -> 10

\* The class body of Config, with the environment read when the class body
\* runs and never again.
ClassBody(environ) ==
    [MODEL_NAME |-> getenv(environ, "CLIP_MODEL", "ViT-B-32"),
     PRETRAINED |-> "openai",
     DEVICE |-> getenv(environ, "CLIP_DEVICE", "cpu"),
     DEFAULT_TOP_K |-> int(getenv(environ, "SEARCH_TOP_K", "5"))]

ConfigInit ==
    /\ fs \in GetEngineWorlds
    /\ EngineFresh
    /\ ThreadsIdle
    /\ earlier = NoCall
    /\ api = ApiDown
    /\ dl = DownloaderIdle
    /\ settings \in { [SettingsUnset EXCEPT !.environ = e] : e \in Environments }

\* monkeypatch.setenv, or the shell, sets a variable.
SetEnv(x) ==
    /\ ~settings.environ[x].set
    /\ settings' = [settings EXCEPT !.environ[x] =
                      [set |-> TRUE, v |-> EnvValue(x)]]
    /\ UNCHANGED <<engine_vars, thread_vars, earlier, api, dl>>

\* The variable is removed again.
DelEnv(x) ==
    /\ settings.environ[x].set
    /\ settings' = [settings EXCEPT !.environ[x] = Unset]
    /\ UNCHANGED <<engine_vars, thread_vars, earlier, api, dl>>

\* "import search": the class statement runs, once per process.
ImportSearch ==
    /\ ~settings.imported
    /\ settings' = [settings EXCEPT !.imported = TRUE,
                                    !.Config = ClassBody(settings.environ)]
    /\ UNCHANGED <<engine_vars, thread_vars, earlier, api, dl>>

\* Config(): the class has no __init__, so the object has no attributes of
\* its own and reports the class attributes.
CreateConfig ==
    /\ settings.imported
    /\ settings' = [settings EXCEPT !.config =
                      [created |-> TRUE, environ |-> settings.environ,
                       reports |-> settings.Config]]
    /\ UNCHANGED <<engine_vars, thread_vars, earlier, api, dl>>

ConfigNext ==
    \/ \E x \in EnvVars : SetEnv(x)
    \/ \E x \in EnvVars : DelEnv(x)
    \/ ImportSearch
    \/ CreateConfig

SpecConfig == ConfigInit /\ [][ConfigNext]_vars

\* ---------------------------------------------------------------------- api

\* The worlds the service starts in; it constructs CLIPSearchEngine() with
\* the default configuration.
ApiWorlds == GetEngineWorlds \cup SearchWorlds

\* The bodies of POST /search: queries that are strings, top_k absent or
\* an integer on either side of the limits of SearchRequest.
ApiQueries == { q \in Queries : q.type = "str" }

ApiTopKs == { PyNone, PyInt(0), PyInt(1), PyInt(MaxImages + 1), PyInt(101) }

\* SearchRequest: query of 2 to 512 characters, top_k absent or in 1..100.
\* FastAPI answers 422 before the endpoint runs when this fails.
RequestValid(query, top_k) ==
    /\ query.type = "str"
    /\ len(query.runs) >= 2
    /\ len(query.runs) <= 512
    /\ \/ top_k.type = "NoneType"
       \/ top_k.type = "int" /\ top_k.v >= 1 /\ top_k.v <= 100

\* The except clauses of the endpoint with SearchError tested first.
StatusOfSearchErrorFirst(call) ==
    IF call.outcome \in { "SearchError", "InvalidQueryError" } THEN 500
    ELSE IF \E j \in 1..Len(call.results) :
              \/ ScoreLess([n |-> 1, d |-> 1], call.results[j].score)
              \/ ScoreLess(call.results[j].score, [n |-> -1, d |-> 1])
    THEN 500
    ELSE 200

\* The status the endpoint answers with for the engine call's outcome:
\* except InvalidQueryError -> 400, then except SearchError -> 500; a
\* similarity outside [-1, 1] fails the response model and ends in the
\* general handler's 500.
StatusOfSearch(call) ==
    IF call.outcome = "InvalidQueryError" THEN 400
    ELSE IF call.outcome = "SearchError" THEN 500
    ELSE IF \E j \in 1..Len(call.results) :
              \/ ScoreLess([n |-> 1, d |-> 1], call.results[j].score)
              \/ ScoreLess(call.results[j].score, [n |-> -1, d |-> 1])
    THEN 500
    ELSE 200

\* The process before the server starts; "nolifespan" is an application
\* served without lifespan events, so that no startup runs at all.
ApiInit ==
    /\ fs \in ApiWorlds
    /\ EngineFresh
    /\ ThreadsIdle
    /\ earlier = NoCall
    /\ settings = SettingsUnset
    /\ dl = DownloaderIdle
    /\ api \in { ApiDown, [ApiDown EXCEPT !.phase = "nolifespan"] }

\* lifespan startup: await initialize_engine(), which constructs the engine
\* and re-raises InitializationError; the server serves only after it.
ApiStartup(modelLoads, tokenizerBinds) ==
    /\ api.phase = "down"
    /\ LET call == ConstructorCall(fs, DefaultConfig, modelLoads,
                                   tokenizerBinds)
           out == call.outcome
       IN /\ init' = call
          /\ engine' = IF out = "ok"
                       THEN BuiltEngine(fs, DefaultConfig, tokenizerBinds)
                       ELSE NoEngine
          /\ api' = [api EXCEPT !.phase = IF out = "ok" THEN "serving"
                                          ELSE "failed",
                                !.search_engine = IF out = "ok" THEN "engine"
                                                  ELSE "None"]
    /\ UNCHANGED <<fs, last, thread_vars, earlier, settings, dl>>

\* An endpoint that never finds the engine missing.
EngineMissingNever(a) == FALSE

\* "if search_engine is None" at the head of both endpoints.
EngineMissing(a) == a.search_engine = "None"

\* Whether the server hands requests to the endpoints.
Serving == api.phase \in { "serving", "nolifespan" }

\* POST /search
ApiSearch(query, top_k, enc, prio) ==
    /\ Serving
    /\ api.response.status = 0
    /\ api' = [api EXCEPT !.response =
         IF ~RequestValid(query, top_k)
         THEN [endpoint |-> "/search", status |-> 422, call |-> NoCall]
         ELSE IF EngineMissing(api)
         THEN [endpoint |-> "/search", status |-> 503, call |-> NoCall]
         ELSE LET call == SearchResult(engine, query, top_k, enc, prio)
              IN [endpoint |-> "/search", status |-> StatusOfSearch(call),
                  call |-> call]]
    /\ UNCHANGED <<engine_vars, thread_vars, earlier, settings, dl>>

\* GET /health
ApiHealth ==
    /\ Serving
    /\ api.response.status = 0
    /\ api' = [api EXCEPT !.response =
         [endpoint |-> "/health",
          status |-> IF EngineMissing(api) THEN 503 ELSE 200,
          call |-> NoCall]]
    /\ UNCHANGED <<engine_vars, thread_vars, earlier, settings, dl>>

\* The response has been sent.
ApiRespond ==
    /\ api.response.status # 0
    /\ api' = [api EXCEPT !.response = NoResponse]
    /\ UNCHANGED <<engine_vars, thread_vars, earlier, settings, dl>>

\* lifespan shutdown: shutdown_engine() calls search_engine.cleanup().
ApiShutdown ==
    /\ api.phase = "serving"
    /\ api.response.status = 0
    /\ api' = [api EXCEPT !.phase = "stopped"]
    /\ engine' = [engine EXCEPT !.model = "deleted"]
    /\ UNCHANGED <<fs, init, last, thread_vars, earlier, settings, dl>>

ApiNext ==
    \/ \E modelLoads \in BOOLEAN, tokenizerBinds \in BOOLEAN :
          ApiStartup(modelLoads, tokenizerBinds)
    \/ \E query \in ApiQueries, top_k \in ApiTopKs, enc \in EncoderOutcomes,
          prio \in TieOrders(num_images(engine)) :
          ApiSearch(query, top_k, enc, prio)
    \/ ApiHealth
    \/ ApiRespond
    \/ ApiShutdown

SpecApi == ApiInit /\ [][ApiNext]_vars

\* --------------------------------------------------------------- downloader

\* max_attempts as main computes it; the argument -1 stands for None.
EffectiveMaxAttempts(remaining, arg) ==
    IF arg = -1 THEN remaining * 3 ELSE arg

\* main up to the loop: the arguments parsed, existing_hashes loaded from
\* the output directory, the counters at 0.
DownloaderInit ==
    /\ fs \in GetEngineWorlds
    /\ EngineFresh
    /\ ThreadsIdle
    /\ earlier = NoCall
    /\ api = ApiDown
    /\ settings = SettingsUnset
    /\ dl \in { [DownloaderIdle EXCEPT
                   !.pc = IF n = 0 THEN "reported" ELSE "loop",
                   !.num_images = n, !.workers = w,
                   !.max_attempts = EffectiveMaxAttempts(n, m),
                   !.initial = d, !.existing_hashes = d] :
                n \in 0..MaxNum, w \in 1..2, m \in -1..MaxAttempts,
                d \in { {}, { "h1" } } }
    /\ dl.max_attempts <= MaxAttempts

\* "downloaded < remaining and attempts < max_attempts"
LoopGoesOn == dl.downloaded < dl.num_images /\ dl.attempts < dl.max_attempts

InFlight == { i \in 1..MaxAttempts :
                dl.tasks[i].pc \in { "get", "check", "write", "add" } }

\* workers <= 1: one more turn of the loop calls download_one.
DlAttempt ==
    /\ dl.pc = "loop"
    /\ dl.workers <= 1
    /\ LoopGoesOn
    /\ dl' = [dl EXCEPT !.attempts = @ + 1, !.pc = "call",
                        !.tasks[dl.attempts + 1].pc = "get"]
    /\ UNCHANGED <<engine_vars, thread_vars, earlier, api, settings>>

\* workers <= 1: download_one has returned; the result is counted.
DlCallReturns ==
    /\ dl.pc = "call"
    /\ dl.tasks[dl.attempts].pc = "finished"
    /\ dl' = [dl EXCEPT !.pc = "loop",
                        !.downloaded = IF dl.tasks[dl.attempts].result = "path"
                                       THEN @ + 1 ELSE @,
                        !.tasks[dl.attempts].pc = "collected"]
    /\ UNCHANGED <<engine_vars, thread_vars, earlier, api, settings>>

\* workers > 1: the outer loop is entered (its condition holds) or the
\* inner loop is at its test.
AtInnerLoop ==
    /\ dl.workers > 1
    /\ \/ dl.pc = "inner"
       \/ dl.pc = "loop" /\ LoopGoesOn

\* "len(futures) < args.workers and attempts < max_attempts"
InnerGoesOn ==
    Cardinality(dl.futures) < dl.workers /\ dl.attempts < dl.max_attempts

\* workers > 1, the inner loop: one more task is submitted.
DlSubmit ==
    /\ AtInnerLoop
    /\ InnerGoesOn
    /\ dl' = [dl EXCEPT !.pc = "inner",
                        !.attempts = @ + 1,
                        !.tasks[dl.attempts + 1].pc = "get",
                        !.futures = @ \cup { dl.attempts + 1 }]
    /\ UNCHANGED <<engine_vars, thread_vars, earlier, api, settings>>

\* workers > 1: the inner loop is over and wait_first is called. futures
\* is never empty here: either a task was just submitted or the inner loop
\* was skipped with workers tasks pending.
DlSubmitted ==
    /\ AtInnerLoop
    /\ ~InnerGoesOn
    /\ dl.futures # {}
    /\ dl' = [dl EXCEPT !.pc = "wait"]
    /\ UNCHANGED <<engine_vars, thread_vars, earlier, api, settings>>

\* wait_first returns one completed future and the loop counts its result.
DlWaitFirst(i) ==
    /\ dl.pc = "wait"
    /\ i \in dl.futures
    /\ dl.tasks[i].pc = "finished"
    /\ dl' = [dl EXCEPT !.pc = "loop",
                        !.futures = @ \ { i },
                        !.downloaded = IF dl.tasks[i].result = "path"
                                       THEN @ + 1 ELSE @,
                        !.tasks[i].pc = "collected"]
    /\ UNCHANGED <<engine_vars, thread_vars, earlier, api, settings>>

\* wait_first times out after a second with nothing completed.
DlWaitTimeout ==
    /\ dl.pc = "wait"
    /\ \A i \in dl.futures : dl.tasks[i].pc # "finished"
    /\ dl' = [dl EXCEPT !.pc = "loop"]
    /\ UNCHANGED <<engine_vars, thread_vars, earlier, api, settings>>

\* The loop condition is false: the with block of the executor is left,
\* which waits for the tasks still running, and the summary is printed.
DlReport ==
    /\ dl.pc = "loop"
    /\ ~LoopGoesOn
    /\ InFlight = {}
    /\ dl' = [dl EXCEPT !.pc = "reported", !.reported = dl.downloaded]
    /\ UNCHANGED <<engine_vars, thread_vars, earlier, api, settings>>

\* download_one: session.get and is_reasonable_image; resp is "fail" or the
\* hash of the content received.
TaskGet(i, resp) ==
    /\ dl.tasks[i].pc = "get"
    /\ dl' = IF resp = "fail"
             THEN [dl EXCEPT !.tasks[i].pc = "finished"]
             ELSE [dl EXCEPT !.tasks[i].pc = "check", !.tasks[i].hash = resp]
    /\ UNCHANGED <<engine_vars, thread_vars, earlier, api, settings>>

\* download_one: "if file_hash in existing_hashes: return None"
TaskCheck(i) ==
    /\ dl.tasks[i].pc = "check"
    /\ dl' = IF dl.tasks[i].hash \in dl.existing_hashes
             THEN [dl EXCEPT !.tasks[i].pc = "finished"]
             ELSE [dl EXCEPT !.tasks[i].pc = "write"]
    /\ UNCHANGED <<engine_vars, thread_vars, earlier, api, settings>>

\* download_one: path.write_bytes(data), under a fresh name.
TaskWrite(i) ==
    /\ dl.tasks[i].pc = "write"
    /\ dl' = [dl EXCEPT !.tasks[i].pc = "add",
                        !.files[dl.tasks[i].hash] = @ + 1]
    /\ UNCHANGED <<engine_vars, thread_vars, earlier, api, settings>>

\* download_one: existing_hashes.add(file_hash); return path.
TaskAdd(i) ==
    /\ dl.tasks[i].pc = "add"
    /\ dl' = [dl EXCEPT !.tasks[i].pc = "finished",
                        !.tasks[i].result = "path",
                        !.existing_hashes = @ \cup { dl.tasks[i].hash }]
    /\ UNCHANGED <<engine_vars, thread_vars, earlier, api, settings>>

DownloaderNext ==
    \/ DlAttempt
    \/ DlCallReturns
    \/ DlSubmit
    \/ DlSubmitted
    \/ \E i \in 1..MaxAttempts : DlWaitFirst(i)
    \/ DlWaitTimeout
    \/ DlReport
    \/ \E i \in 1..MaxAttempts, resp \in Hashes \cup { "fail" } : TaskGet(i, resp)
    \/ \E i \in 1..MaxAttempts : TaskCheck(i)
    \/ \E i \in 1..MaxAttempts : TaskWrite(i)
    \/ \E i \in 1..MaxAttempts : TaskAdd(i)

SpecDownloader == DownloaderInit /\ [][DownloaderNext]_vars

\* ------------------------------------------------------------------- claims

\* The length of a string without its leading and trailing whitespace: the
\* characters from its first to its last non-whitespace run.
CoreLength(runs) ==
    LET nonWs == { i \in 1..Len(runs) : ~runs[i].ws }
    IN IF nonWs = {} THEN 0
       ELSE LET first == CHOOSE i \in nonWs : \A j \in nonWs : i <= j
                final == CHOOSE i \in nonWs : \A j \in nonWs : j <= i
            IN SumSeq([i \in 1..(final - first + 1) |-> runs[first + i - 1].n])

QueryIsBad(query) ==
    \/ query.type # "str"
    \/ CoreLength(query.runs) < 2
    \/ CoreLength(query.runs) > 512

\* The top_k a call works with: the argument, or the configured default
\* when the argument is unset.
EffectiveTopK(top_k) ==
    IF top_k.type = "NoneType"
    THEN [type |-> "int", v |-> engine.config.DEFAULT_TOP_K] ELSE top_k

\* Not an integer (Python counts bool as an integer type), or not positive.
TopKIsBad(top_k) ==
    \/ EffectiveTopK(top_k).type \notin { "int", "bool" }
    \/ EffectiveTopK(top_k).v <= 0

NumStored == Len(engine.image_filenames.data)

SearchOk == last.op = "search" /\ last.outcome = "ok"

\* The similarity of every stored row with the query vector of the last call.
StoredSimilarity ==
    Similarities(engine.image_embeddings_t, F_normalize(RawRow(last.enc.v)))

\* C1: search raises InvalidQueryError for every query that is not a string
\* and for every string whose stripped length is below 2 or above 512
\* (whitespace-only strings included); a string whose stripped length is
\* in 2..512 is accepted: search then raises InvalidQueryError only for
\* its top_k.
C1_QueryValidation ==
    last.op = "search" =>
        /\ QueryIsBad(last.query) => last.outcome = "InvalidQueryError"
        /\ (~QueryIsBad(last.query) /\ last.outcome = "InvalidQueryError")
              => TopKIsBad(last.top_k)

\* A whitespace-only string of length 2 or more was rejected.
C1_Witness ==
    /\ last.op = "search"
    /\ last.query.type = "str"
    /\ last.query.runs # <<>>
    /\ \A i \in 1..Len(last.query.runs) : last.query.runs[i].ws
    /\ len(last.query.runs) >= 2
    /\ last.outcome = "InvalidQueryError"

\* C2: for every top_k that is not an integer or is <= 0, passed explicitly
\* or taken from the configured default, search with a valid query raises
\* InvalidQueryError.
C2_TopKValidation ==
    (last.op = "search" /\ ~QueryIsBad(last.query) /\ TopKIsBad(last.top_k))
        => last.outcome = "InvalidQueryError"

\* top_k was unset, the configured default is 0, and the call was rejected.
C2_Witness ==
    /\ last.op = "search"
    /\ ~QueryIsBad(last.query)
    /\ last.top_k.type = "NoneType"
    /\ engine.config.DEFAULT_TOP_K = 0
    /\ last.outcome = "InvalidQueryError"

\* C3: on a Ready engine holding N images a successful search with a valid
\* query and positive integer top_k = k returns exactly min(k, N) results,
\* and the call succeeds whenever the tokenizer and the encoder delivered a
\* query vector of the store's dimension, whatever k is: k > N alone never
\* makes it raise.
C3_ResultCount ==
    (/\ last.op = "search"
     /\ engine.model = "loaded"
     /\ ~QueryIsBad(last.query)
     /\ EffectiveTopK(last.top_k).type = "int"
     /\ EffectiveTopK(last.top_k).v >= 1)
    => /\ last.outcome = "ok" =>
            Len(last.results) =
                IF EffectiveTopK(last.top_k).v <= NumStored
                THEN EffectiveTopK(last.top_k).v ELSE NumStored
       /\ (/\ last.enc.kind = "vec"
           /\ Len(last.enc.v) = engine.image_embeddings_t.dim)
          => last.outcome = "ok"

\* A search asking for more results than the non-empty store holds
\* returned all of them.
C3_Witness ==
    /\ SearchOk
    /\ NumStored >= 1
    /\ EffectiveTopK(last.top_k).type = "int"
    /\ EffectiveTopK(last.top_k).v > NumStored
    /\ Len(last.results) = NumStored

\* C4: the scores of a successful search are in descending order: no
\* result's score is less than the score of the result after it.
C4_ScoresDescending ==
    SearchOk =>
        \A j \in 1..(Len(last.results) - 1) :
            ~ScoreLess(last.results[j].score, last.results[j + 1].score)

\* A search returned two results of different scores.
C4_Witness ==
    /\ SearchOk
    /\ Len(last.results) >= 2
    /\ ScoreLess(last.results[2].score, last.results[1].score)

\* C5: the results of a successful search are the highest-scoring images of
\* the whole store: no image left out has a strictly higher similarity to
\* the query than an image that was returned.
C5_TopKHighest ==
    SearchOk =>
        \A i \in 1..NumStored : \A j \in 1..Len(last.idx_list) :
            (\A m \in 1..Len(last.idx_list) : last.idx_list[m] # i)
                => ~ScoreLess(StoredSimilarity[last.idx_list[j]],
                              StoredSimilarity[i])

\* A search returned the second image and left out the first, whose score
\* is strictly lower.
C5_Witness ==
    /\ SearchOk
    /\ NumStored = 2
    /\ last.idx_list = <<2>>
    /\ ScoreLess(StoredSimilarity[1], StoredSimilarity[2])

\* C6: every (identifier, score) pair of a successful search belongs to one
\* store position i: the identifier is identifiers[i], the score is the
\* similarity of row i with the query vector, and no position is returned
\* twice.
C6_ResultsAligned ==
    SearchOk =>
        /\ Len(last.results) = Len(last.idx_list)
        /\ \A j \in 1..Len(last.idx_list) :
              /\ last.idx_list[j] \in 1..NumStored
              /\ last.results[j].name =
                    engine.image_filenames.data[last.idx_list[j]]
              /\ last.results[j].score = StoredSimilarity[last.idx_list[j]]
        /\ \A j, m \in 1..Len(last.idx_list) :
              last.idx_list[j] = last.idx_list[m] => j = m

\* A search returned both images, the second one first.
C6_Witness ==
    /\ SearchOk
    /\ last.idx_list = <<2, 1>>
    /\ last.results[1].name = "image_b.jpg"

\* C7: under every configuration every score of a successful search lies
\* in [-1, 1] (for a score n / sqrt(d): n * n <= d).
C7_ScoresInRange ==
    SearchOk =>
        \A j \in 1..Len(last.results) :
            last.results[j].score.n * last.results[j].score.n
                <= last.results[j].score.d

\* Whether the last constructor call ran, and what it was given: the
\* directory its configuration names, and the files there.
Constructed == init.outcome # "none"

ConfiguredDir == InstanceEmbeddingsDir(init.config)

FileAbsent == fs.state[ConfiguredDir] # "both"

RowCountDiffers ==
    fs.state[ConfiguredDir] = "both" /\ Len(fs.emb.rows) # Len(fs.fn)

\* C8: any failure of engine construction reaches the caller as
\* InitializationError, never as another exception type, and leaves no
\* engine.
C8_OnlyInitializationError ==
    /\ init.outcome \in { "none", "ok", "InitializationError" }
    /\ init.outcome # "ok" => ~engine.constructed

C10_StoreConsistent ==
    /\ engine.constructed =>
          /\ Len(engine.image_embeddings.rows) = NumStored
          /\ Len(engine.image_embeddings_t.rows) = NumStored
    /\ (Constructed /\ RowCountDiffers) => ~engine.constructed

\* A search ran on a non-empty engine after cleanup had released its model.
C10_Witness ==
    /\ engine.constructed
    /\ engine.model = "deleted"
    /\ NumStored >= 1
    /\ last.op = "search"

\* C11: for every configuration whose EMBEDDINGS_DIR, however it was set,
\* names a directory holding both array files with equal counts, and with
\* a model that loads (on a device torch knows), construction succeeds and
\* the engine has image_embeddings, image_filenames and model set.
C11_ConstructionSucceeds ==
    (/\ Constructed
     /\ ~FileAbsent
     /\ ~RowCountDiffers
     /\ init.modelLoads
     /\ init.config.DEVICE \in { "cpu", "cuda" })
    => /\ init.outcome = "ok"
       /\ engine.constructed
       /\ engine.model = "loaded"
       /\ ~engine.image_filenames.isNone

\* C12: cleanup is idempotent: on an engine that reached Ready no call of
\* cleanup, first or later, raises, and after each the model is released.
C12_CleanupIdempotent ==
    last.op = "cleanup" =>
        /\ last.outcome = "ok"
        /\ engine.model # "loaded"

\* C13: after cleanup has closed a Ready engine, a search with a valid query
\* and a valid top_k (whose tokenization went through, so that the released
\* model is all that is wrong) returns no results and does not reach the
\* caller as SearchError.
C13_SearchAfterCloseNotSearchError ==
    (/\ last.op = "search"
     /\ engine.model = "deleted"
     /\ ~QueryIsBad(last.query)
     /\ ~TopKIsBad(last.top_k)
     /\ last.tokenized)
    => /\ last.results = <<>>
       /\ last.outcome \notin { "ok", "SearchError" }

\* C14: on every exit from a with block, normal or by an exception, the
\* model is released, and reading engine.model afterwards yields None.
C14_ExitReleasesModel ==
    last.op = "__exit__" =>
        /\ engine.model # "loaded"
        /\ ReadModel(engine) = "None"

\* C17: whenever search raises InvalidQueryError, for a bad query or a bad
\* top_k, the tokenizer, the text encoder and the scoring and top-k
\* computation were not invoked in that call.
C17_RejectedBeforeCompute ==
    (last.op = "search" /\ last.outcome = "InvalidQueryError")
    => /\ ~last.tokenized
       /\ last.enc.kind = "notcalled"
       /\ ~last.ranked
       /\ last.results = <<>>

\* A valid query was rejected for its top_k.
C17_Witness ==
    /\ last.op = "search"
    /\ last.outcome = "InvalidQueryError"
    /\ ~QueryIsBad(last.query)
    /\ TopKIsBad(last.top_k)

\* The encoder returned a query vector whose width is not the stored one.
DimensionMismatch ==
    /\ last.enc.kind = "vec"
    /\ Len(last.enc.v) # engine.image_embeddings_t.dim

\* C18: once validation has passed, the call either returns its results or
\* raises SearchError itself: never InvalidQueryError, never the lower-level
\* exception; a query vector of the wrong width is one such case.
C18_FailuresAreSearchError ==
    (/\ last.op = "search"
     /\ ~QueryIsBad(last.query)
     /\ ~TopKIsBad(last.top_k))
    => /\ last.outcome \in { "ok", "SearchError" }
       /\ last.outcome = "ok" <=> last.ranked
       /\ DimensionMismatch => last.outcome = "SearchError"
       /\ last.enc.kind = "encoder_raises" => last.outcome = "SearchError"

\* On a Ready engine the encoder returned a vector of the wrong width and
\* the caller got SearchError.
C18_Witness ==
    /\ last.op = "search"
    /\ engine.model = "loaded"
    /\ DimensionMismatch
    /\ last.outcome = "SearchError"

\* C19: a search call, whatever its outcome, leaves the engine's arrays,
\* device tensor, model, tokenizer and configuration, and the files, as
\* they were; so the engine stays Ready and a later search sees the same
\* engine.
C19_SearchLeavesEngine ==
    [][last'.op = "search" => (engine' = engine /\ fs' = fs /\ init' = init)]_vars

\* A search on a Ready engine ended with each kind of outcome; here the
\* one that raised SearchError, the engine still Ready.
C19_Witness ==
    /\ last.op = "search"
    /\ last.outcome = "SearchError"
    /\ last.enc.kind = "encoder_raises"
    /\ engine.constructed
    /\ engine.model = "loaded"

\* C15: under concurrent first access get_engine constructs
\* CLIPSearchEngine at most once, and every caller receives the same
\* instance.
C15_AtMostOneConstruction ==
    /\ made <= 1
    /\ \A t, u \in Threads :
         (getters[t].ret # 0 /\ getters[u].ret # 0)
         => getters[t].ret = getters[u].ret

\* C16: in sequential use get_engine constructs only when no module-level
\* instance exists; once a call has succeeded every later call returns that
\* same instance and nothing is constructed again; when the constructor
\* raises, no instance is retained, so that a later call constructs anew.
C16_SequentialGetOrCreate ==
    /\ \A t \in Threads :
         getters[t].pc \in { "construct", "assign" } => _engine = 0
    /\ made <= 1
    /\ \A t \in Threads : getters[t].ret \in { 0, 1 }
    /\ \A t \in Threads :
         (getters[t].pc = "idle" /\ getters[t].outcome = "ok")
         => (_engine = 1 /\ getters[t].ret = _engine)
    /\ made = 0 => _engine = 0
    /\ (\A t \in Threads : getters[t].pc = "idle") => _engine = made

\* One thread's first call raised and left nothing behind; its second call
\* constructed the instance, and the other thread's call then returned the
\* same instance.
C16_Witness ==
    /\ \A t \in Threads : getters[t].pc = "idle"
    /\ getters["t1"].raised = 1
    /\ getters["t1"].ret = 1
    /\ getters["t2"].ret = 1
    /\ made = 1

\* What a thread's call would be had it run alone on the engine, given what
\* tokenizer and encoder returned to it: one of these, by the tie order.
AloneOutcomes(t) ==
    { SearchResult(engine, searchers[t].call.query, searchers[t].call.top_k,
                   searchers[t].enc, prio) :
        prio \in TieOrders(num_images(engine)) }

\* C20: concurrent search calls on one Ready engine, with no locking, do not
\* interfere: in every interleaving each finished call has the outcome and
\* the results it would have had alone.
C20_ConcurrentSearchesIndependent ==
    \A t \in Threads :
        searchers[t].pc = "done" => searchers[t].call \in AloneOutcomes(t)

\* Two calls finished side by side with results, for different query
\* vectors over a non-empty corpus.
C20_Witness ==
    /\ searchers["t1"].pc = "done"
    /\ searchers["t2"].pc = "done"
    /\ searchers["t1"].call.outcome = "ok"
    /\ searchers["t2"].call.outcome = "ok"
    /\ searchers["t1"].call.results # <<>>
    /\ searchers["t1"].call.enc # searchers["t2"].call.enc

\* A kept call and the last call are two successful searches with the same
\* query and top_k, to which the encoder gave the same vector.
SameSearchTwice ==
    /\ earlier.op = "search"
    /\ last.op = "search"
    /\ earlier.query = last.query
    /\ earlier.top_k = last.top_k
    /\ earlier.outcome = "ok"
    /\ last.outcome = "ok"
    /\ earlier.enc = last.enc

\* No two stored images are equally similar to the last call's query vector.
NoTiedScores ==
    LET sim == Similarities(engine.image_embeddings_t,
                            F_normalize(RawRow(last.enc.v)))
    IN \A i, j \in 1..Len(sim) : i # j => ~ScoreEq(sim[i], sim[j])

C22_NumImages ==
    num_images(engine) = IF engine.constructed THEN Len(fs.fn) ELSE 0

\* An engine built over two identifiers, searched and later closed, still
\* reports two.
C22_Witness ==
    /\ engine.constructed
    /\ engine.model = "deleted"
    /\ Len(fs.fn) = 2
    /\ num_images(engine) = 2

\* C23: validate() called on a configuration returns True exactly when that
\* configuration's EMBEDDINGS_DIR exists and holds both array files.
C23_ValidateReflectsConfig ==
    last.op = "validate" =>
        (last.outcome = "True"
         <=> fs.state[InstanceEmbeddingsDir(last.config)] = "both")

\* C24: a Config object created after CLIP_MODEL, CLIP_DEVICE or
\* SEARCH_TOP_K have been set reports the values set at that moment; with
\* none of them set it reports ViT-B-32, openai, cpu and 5.
C24_ConfigReportsEnvironment ==
    settings.config.created =>
        LET env == settings.config.environ
            rep == settings.config.reports
        IN /\ rep.MODEL_NAME =
                IF env["CLIP_MODEL"].set THEN env["CLIP_MODEL"].v
                ELSE "ViT-B-32"
           /\ rep.DEVICE =
                IF env["CLIP_DEVICE"].set THEN env["CLIP_DEVICE"].v ELSE "cpu"
           /\ rep.DEFAULT_TOP_K =
                IF env["SEARCH_TOP_K"].set THEN 10 ELSE 5
           /\ rep.PRETRAINED = "openai"

\* C25: loading fails with InitializationError when the embeddings array
\* has vector dimension zero; no engine reaches Ready with such a store.
\* (Stated for a complete directory and a device torch knows, where nothing
\* else makes the constructor fail.)
C25_RejectsDegenerateStore ==
    (/\ Constructed
     /\ ~FileAbsent
     /\ fs.emb.dim = 0
     /\ init.config.DEVICE \in { "cpu", "cuda" })
    => /\ init.outcome = "InitializationError"
       /\ ~engine.constructed

\* A request to /search that passed request validation has been answered.
SearchAnswered ==
    /\ api.response.endpoint = "/search"
    /\ api.response.status # 422

\* C26: the API passes no search request to the engine before construction
\* has completed; a failed startup never serves; and /search and /health
\* answer 503 whenever no engine instance exists.
C26_NoRequestBeforeReady ==
    /\ api.response.call.op = "search"
       => (init.outcome = "ok" /\ engine.constructed)
    /\ api.phase = "failed"
       => (api.response = NoResponse /\ api.search_engine = "None")
    /\ (api.response.status # 0 /\ api.search_engine = "None")
       => api.response.status = 503

\* C26, amended: as above, with 503 the answer of /health and of every
\* /search request that passes request validation; a malformed /search
\* request is answered 422 whether or not an engine exists.
C26_NoValidRequestBeforeReady ==
    /\ api.response.call.op = "search"
       => (init.outcome = "ok" /\ engine.constructed)
    /\ api.phase = "failed"
       => (api.response = NoResponse /\ api.search_engine = "None")
    /\ (api.response.status \notin { 0, 422 } /\ api.search_engine = "None")
       => (api.response.status = 503 /\ api.response.call = NoCall)
    /\ (api.response.status = 422)
       => (api.response.endpoint = "/search" /\ api.response.call = NoCall)

\* A well-formed search was answered 503 where no engine exists.
C26_Witness ==
    /\ SearchAnswered
    /\ api.search_engine = "None"
    /\ api.response.status = 503

\* C27: at the search endpoint every InvalidQueryError of the engine yields
\* 400 and every other SearchError yields 500; an InvalidQueryError is
\* never answered 500.
C27_ErrorStatus ==
    api.response.call.op = "search" =>
        /\ api.response.call.outcome = "InvalidQueryError"
           => api.response.status = 400
        /\ api.response.call.outcome = "SearchError"
           => api.response.status = 500
        /\ api.response.status = 400
           => QueryIsBad(api.response.call.query)

\* The engine rejected a query that the request model had let through, and
\* the answer was 400.
C27_Witness ==
    /\ api.response.call.op = "search"
    /\ api.response.call.outcome = "InvalidQueryError"
    /\ api.response.status = 400

\* C28: if binding the named tokenizer raises during initialization, the
\* engine selects the default tokenizer, logs a warning, and initialization
\* still completes to Ready instead of failing with InitializationError; a
\* tokenizer is bound in every Ready engine.
C28_TokenizerFallback ==
    /\ init.tokenizer_failed
       => /\ init.outcome = "ok"
          /\ init.warned
          /\ engine.constructed
          /\ engine.tokenizer = "default"
    /\ engine.constructed => engine.tokenizer \in { "named", "default" }
    /\ init.warned => init.tokenizer_failed

\* get_tokenizer raised, the engine was built all the same, and a search
\* on it returned results.
C28_Witness ==
    /\ init.tokenizer_failed
    /\ init.warned
    /\ engine.tokenizer = "default"
    /\ last.op = "search"
    /\ last.outcome = "ok"
    /\ last.results # <<>>

\* The number of files the run has written.
FilesWritten == dl.files["h1"] + dl.files["h2"]

\* C29: a downloader run with --num-images = n writes at most n new files
\* and the reported count equals the number of files written, for every
\* number of workers.
C29_WritesWhatItReports ==
    /\ FilesWritten <= dl.num_images
    /\ dl.pc = "reported" => dl.reported = FilesWritten

\* C30: no file is written whose content hash equals that of an image in
\* the output directory at start or of another file written in the same
\* run, in every interleaving of the workers.
C30_NoDuplicateContent ==
    \A h \in Hashes :
        /\ dl.files[h] <= 1
        /\ h \in dl.initial => dl.files[h] = 0

====
